---- MODULE Spec2Model ----
(***************************************************************************)
(* The offline exchange simulator of trading_bot (MockExchange): its       *)
(* ledger, its order registry and its synthetic prices, as a state         *)
(* machine with one action per public method.                              *)
(*                                                                         *)
(* Numbers.  The program computes in floating point; the model computes    *)
(* in exact fixed point, so that no operation needs a division:            *)
(*   - a base quantity is counted in lots of 0.05 (BTC 0.05 = 1 lot);      *)
(*   - a symbol's current price is counted in ticks of 0.2 USDT            *)
(*     (BTC/USDT 45000 = 225000 ticks, ADA/USDT 1.20 = 6 ticks);           *)
(*   - an order's price is counted in thousandths of a tick, so that the   *)
(*     slippage factors 1.001 and 0.999 are the integers 1001 and 999;     *)
(*   - a quote amount is lots * order price, i.e. units of 0.00001 USDT    *)
(*     (USDT 10000 = 1000000000 units);                                    *)
(*   - a candle's prices are counted in hundredths of a tick, its volume   *)
(*     in whole units, its time in milliseconds since the first candle;    *)
(*   - an order book's prices are counted in ten-thousandths of a tick,    *)
(*     its sizes in tenths.                                                *)
(* A random draw is a choice among the values the draw can return.  The    *)
(* candle series is held as the draws its generation made (history_draws); *)
(* price_history is the series generated from them.                        *)
(* Strings that the program takes apart (symbols, order ids) are           *)
(* sequences of characters or digits.                                      *)
(***************************************************************************)
EXTENDS Integers, Sequences, FiniteSets, TLC

VARIABLES balances, orders, order_counter, current_prices, history_draws, last

vars == <<balances, orders, order_counter, current_prices, history_draws, last>>

(* ------------------------------ bounds -------------------------------- *)

\* create_order is offered while fewer than MaxOrders orders are stored.
MaxOrders == 2

\* fetch_ticker moves a price by whole multiples of TickStep ticks.
TickStep == 100

(* ------------------------ strings and numbers ------------------------- *)

USDT == <<"U", "S", "D", "T">>
BTC == <<"B", "T", "C">>
ETH == <<"E", "T", "H">>
BNB == <<"B", "N", "B">>
XRP == <<"X", "R", "P">>
DOGE == <<"D", "O", "G", "E">>
SHIB == <<"S", "H", "I", "B">>

BTC_USDT == <<"B", "T", "C", "/", "U", "S", "D", "T">>
ETH_USDT == <<"E", "T", "H", "/", "U", "S", "D", "T">>
BNB_USDT == <<"B", "N", "B", "/", "U", "S", "D", "T">>
ADA_USDT == <<"A", "D", "A", "/", "U", "S", "D", "T">>
SOL_USDT == <<"S", "O", "L", "/", "U", "S", "D", "T">>
XRP_USDT == <<"X", "R", "P", "/", "U", "S", "D", "T">>

\* Python's None, and a present optional value.
None == <<>>
Some(x) == <<x>>

\* symbol.split('/') on a symbol holding one slash: the part before it ...
SlashPos(symbol) == CHOOSE i \in 1..Len(symbol) :
                        /\ symbol[i] = "/"
                        /\ \A j \in 1..(i - 1) : symbol[j] # "/"
SplitBase(symbol) == SubSeq(symbol, 1, SlashPos(symbol) - 1)
\* ... and the part after it.
SplitQuote(symbol) == SubSeq(symbol, SlashPos(symbol) + 1, Len(symbol))

\* str(n) of a non-negative integer: its decimal digits.
RECURSIVE Str(_)
Str(n) == IF n < 10 THEN <<n>> ELSE Append(Str(n \div 10), n % 10)

\* int(s) of a string of decimal digits.
RECURSIVE IntOf(_)
IntOf(s) == IF s = <<>> THEN 0 ELSE IntOf(SubSeq(s, 1, Len(s) - 1)) * 10 + s[Len(s)]

(* --------------------------- configuration ---------------------------- *)

InitUSDT == 1000000000
InitBTC == 1
InitETH == 30
InitBNB == 200

InitPriceBTC == 225000
InitPriceETH == 12500
InitPriceBNB == 2250
InitPriceADA == 6
InitPriceSOL == 900

FirstOrderId == 1000

\* The slippage factors 1.001 and 0.999, in thousandths.
SlippageBuy == 1001
SlippageSell == 999

\* The candles generated per symbol, and their spacing in milliseconds.
CandleCount == 24
HourMs == 3600000

\* The levels fetch_order_book generates when no limit is given.
DefaultDepth == 20

Balance(amount) == [free |-> amount, used |-> 0, total |-> amount]

InitBalances == (USDT :> Balance(InitUSDT)) @@ (BTC :> Balance(InitBTC))
                @@ (ETH :> Balance(InitETH)) @@ (BNB :> Balance(InitBNB))

InitPrices == (BTC_USDT :> InitPriceBTC) @@ (ETH_USDT :> InitPriceETH)
              @@ (BNB_USDT :> InitPriceBNB) @@ (ADA_USDT :> InitPriceADA)
              @@ (SOL_USDT :> InitPriceSOL)

(* ------------------------------ inputs -------------------------------- *)

\* A limit price (in thousandths of a tick) between the two prices the
\* ticker moves BTC/USDT to and from.
LimitPrice == InitPriceBTC * 1000 + TickStep * 500

Amounts == {-1, 1}

\* The calls of create_order, <<symbol, order_type, side, amount, price>>:
\* every type, side and amount with a price given, every type and side
\* with none, and the calls that fail validation or name an asset the
\* ledger does not hold.
CreateCalls ==
    ({BTC_USDT} \X {"market", "limit"} \X {"buy", "sell"} \X Amounts \X {Some(LimitPrice)})
    \cup ({BTC_USDT} \X {"market", "limit"} \X {"buy", "sell"} \X {1} \X {None})
    \cup {<<XRP_USDT, "stop", "hold", 1, None>>,
          <<BTC_USDT, "stop", "hold", 1, None>>,
          <<BTC_USDT, "limit", "hold", 1, None>>,
          <<ADA_USDT, "market", "sell", 1, None>>}

\* Symbols passed to cancel_order, fetch_order and fetch_ticker: a configured
\* pair and one that is not.
CallSymbols == {BTC_USDT, XRP_USDT}

\* Order ids passed to cancel_order and fetch_order: every id the bound lets
\* the simulator issue, and one it never issues.
OrderIds == {Str(n) : n \in FirstOrderId..(FirstOrderId + MaxOrders)}

\* The draws of _generate_price_history for one candle, in percent: the
\* factor of the close (uniform in 0.98..1.02), of the high (1.00..1.02) and
\* of the low (0.98..1.00), and the volume (100..1000).
CandleDraw(i) ==
    [close |-> 98 + ((i * 3) % 5), high |-> 100 + (i % 3), low |-> 98 + ((i + 1) % 3),
     volume |-> 100 + ((i * 300) % 901)]

\* The sequences of draws a construction makes.
HistoryDraws == {[i \in 1..CandleCount |-> CandleDraw(i)]}

\* The arguments of fetch_order_book and fetch_ohlcv.
BookSymbols == {ETH_USDT, XRP_USDT}
CandleSymbols == {BTC_USDT, ETH_USDT, BNB_USDT, ADA_USDT, SOL_USDT, XRP_USDT}
BookLimits == {None, Some(0), Some(2)}
CandleLimits == {None, Some(0), Some(2), Some(CandleCount + 1)}

\* The sizes fetch_order_book draws for its levels, by level, in tenths.
BookSizes == {[i \in 1..DefaultDepth |-> 1], [i \in 1..DefaultDepth |-> 1 + ((i * 37) % 100)]}

\* The prices a ticker fetch can store for a symbol.
PriceGrid(symbol) == {InitPrices[symbol], InitPrices[symbol] + TickStep}

(* ------------------------------- ledger ------------------------------- *)

\* Reserve, forgetting to add the amount to used.
ReserveFreeOnly(bal, asset, amount) ==
    [bal EXCEPT ![asset].free = @ - amount]

\* free -= amount; used += amount  (create_order, either side)
Reserve(bal, asset, amount) ==
    [bal EXCEPT ![asset].free = @ - amount, ![asset].used = @ + amount]

\* used -= amount; free += amount  (cancel_order, either side)
Release(bal, asset, amount) ==
    [bal EXCEPT ![asset].used = @ - amount, ![asset].free = @ + amount]

(* ----------------------------- the calls ------------------------------ *)

Max(a, b) == IF a >= b THEN a ELSE b
Min(a, b) == IF a <= b THEN a ELSE b

\* x * percent / 100, rounded down.
Scaled(x, percent) == x + (x * (percent - 100)) \div 100

\* Candle, with the hour left out of the time: every candle carries the time
\* the series starts at.
CandleUntimed(i, open_price, close_price, d) ==
    <<0,
      open_price,
      Scaled(Max(open_price, close_price), d.high),
      Scaled(Min(open_price, close_price), d.low),
      close_price,
      d.volume>>

\* Candle, with the factors of the high and the low exchanged: the high is
\* drawn below the larger of open and close, the low above the smaller.
CandleNarrowed(i, open_price, close_price, d) ==
    <<i * HourMs,
      open_price,
      Scaled(Max(open_price, close_price), d.low),
      Scaled(Min(open_price, close_price), d.high),
      close_price,
      d.volume>>

\* The candle of hour i with the given open and close and the draws d.  A
\* candle is the list [time, open, high, low, close, volume], the time
\* counted from the start of the series.
Candle(i, open_price, close_price, d) ==
    <<i * HourMs,
      open_price,
      Scaled(Max(open_price, close_price), d.high),
      Scaled(Min(open_price, close_price), d.low),
      close_price,
      d.volume>>

\* Candles, with the previous close never carried over: every candle opens
\* at the series' first price.
RECURSIVE CandlesFlat(_, _, _)
CandlesFlat(i, current_price, draws) ==
    IF i >= CandleCount THEN <<>>
    ELSE CHOOSE candles \in
            {<<Candle(i, open_price, close_price, draws[i + 1])>>
                 \o CandlesFlat(i + 1, open_price, draws) :
                     open_price \in {current_price},
                     close_price \in {Scaled(current_price, draws[i + 1].close)}} : TRUE

\* The candles of one symbol from candle i on (counted from 0), the previous
\* close being current_price: open is the previous close, close is the open
\* times the drawn factor.  (open_price and close_price range over one-element
\* sets so that each is computed once.)
RECURSIVE Candles(_, _, _)
Candles(i, current_price, draws) ==
    IF i >= CandleCount THEN <<>>
    ELSE CHOOSE candles \in
            {<<Candle(i, open_price, close_price, draws[i + 1])>>
                 \o Candles(i + 1, close_price, draws) :
                     open_price \in {current_price},
                     close_price \in {Scaled(current_price, draws[i + 1].close)}} : TRUE

\* _generate_price_history: each symbol's series starts at 95% of its price.
GeneratePriceHistory(draws) ==
    [symbol \in DOMAIN InitPrices |->
        Candles(0, InitPrices[symbol] * 95, draws)]

\* self.price_history: the series generated at construction.
price_history == GeneratePriceHistory(history_draws)

Init ==
    /\ balances = InitBalances
    /\ orders = <<>>
    /\ order_counter = FirstOrderId
    /\ current_prices = InitPrices
    /\ history_draws \in HistoryDraws
    /\ last = [op |-> "init", err |-> "ok", result |-> None]

\* Raise, with the exception swallowed: the call returns None.
RaiseSwallowed(op, err) ==
    /\ last' = [op |-> op, err |-> "ok", result |-> None]
    /\ UNCHANGED <<balances, orders, order_counter, current_prices, history_draws>>

\* A call that raises: nothing but the outcome changes.
Raise(op, err) ==
    /\ last' = [op |-> op, err |-> err, result |-> None]
    /\ UNCHANGED <<balances, orders, order_counter, current_prices, history_draws>>

\* AsMarket, looking at the price argument alone.
AsMarketByPrice(order_type, price) == price = None

\* create_order treats the order as a market order.
AsMarket(order_type, price) == order_type = "market" \/ price = None

\* OrderPrice, pricing every order at the market.
OrderPriceAtMarket(symbol, order_type, side, price) ==
    current_prices[symbol] * (IF side = "buy" THEN SlippageBuy ELSE SlippageSell)

\* The price of the order.
OrderPrice(symbol, order_type, side, price) ==
    IF AsMarket(order_type, price)
    THEN current_prices[symbol] * (IF side = "buy" THEN SlippageBuy ELSE SlippageSell)
    ELSE price[1]

\* The asset create_order reserves, and cancel_order releases.
ReservedAsset(symbol, side) ==
    IF side = "buy" THEN SplitQuote(symbol) ELSE SplitBase(symbol)

\* The amount create_order reserves.
Needed(side, amount, order_price) ==
    IF side = "buy" THEN amount * order_price ELSE amount

\* The order record create_order stores and returns.
NewOrder(order_id, symbol, order_type, side, amount, price) ==
    LET order_price == OrderPrice(symbol, order_type, side, price)
        filled == IF AsMarket(order_type, price) THEN amount ELSE 0
    IN  [id |-> order_id,
         symbol |-> symbol,
         type |-> order_type,
         side |-> side,
         price |-> order_price,
         amount |-> amount,
         cost |-> amount * order_price,
         average |-> order_price,
         filled |-> filled,
         remaining |-> amount - filled,
         status |-> IF AsMarket(order_type, price) THEN "closed" ELSE "open"]

\* Validate, testing the side before the symbol and the type.
ValidateSideFirst(symbol, order_type, side) ==
    IF side \notin {"buy", "sell"} THEN "InvalidSide"
    ELSE IF symbol \notin DOMAIN current_prices THEN "UnknownSymbol"
    ELSE IF order_type \notin {"market", "limit"} THEN "InvalidOrderType"
    ELSE "ok"

\* The input validation of create_order: the first check that fails.
Validate(symbol, order_type, side) ==
    IF symbol \notin DOMAIN current_prices THEN "UnknownSymbol"
    ELSE IF order_type \notin {"market", "limit"} THEN "InvalidOrderType"
    ELSE IF side \notin {"buy", "sell"} THEN "InvalidSide"
    ELSE "ok"

\* NextCounter, with the increment left out.
NextCounterStuck(counter) == counter

\* self.order_counter += 1
NextCounter(counter) == counter + 1

\* Store, with the registry started afresh: only the new order is kept.
StoreAlone(registry, order_id, order) == [id \in {order_id} |-> order]

\* self.orders[order_id] = order
Store(registry, order_id, order) ==
    [id \in DOMAIN registry \cup {order_id} |->
        IF id = order_id THEN order ELSE registry[id]]

\* Insufficient, refusing an order that needs the whole free balance.
InsufficientAtBoundary(free, needed) == free <= needed

\* Insufficient, with the balance check left out.
InsufficientNever(free, needed) == FALSE

\* The balance check of create_order.
Insufficient(free, needed) == free < needed

create_order(symbol, order_type, side, amount, price) ==
    /\ order_counter < FirstOrderId + MaxOrders
    /\ IF Validate(symbol, order_type, side) # "ok"
       THEN Raise("create_order", Validate(symbol, order_type, side))
       ELSE LET order_price == OrderPrice(symbol, order_type, side, price)
                asset == ReservedAsset(symbol, side)
                needed == Needed(side, amount, order_price)
                order_id == Str(order_counter)
                order == NewOrder(order_id, symbol, order_type, side, amount, price)
            IN  IF asset \notin DOMAIN balances
                THEN Raise("create_order", "KeyError")
                ELSE IF Insufficient(balances[asset].free, needed)
                THEN Raise("create_order", "InsufficientFunds")
                ELSE /\ balances' = Reserve(balances, asset, needed)
                     /\ order_counter' = NextCounter(order_counter)
                     /\ orders' = Store(orders, order_id, order)
                     /\ last' = [op |-> "create_order", err |-> "ok", result |-> order]
                     /\ UNCHANGED <<current_prices, history_draws>>

\* Uncancelable, testing for the wrong terminal status.
UncancelableCanceled(status) == status = "canceled"

\* Uncancelable, with the status check left out.
UncancelableNone(status) == FALSE

\* The status check of cancel_order: the statuses it refuses to cancel.
Uncancelable(status) == status = "closed"

\* CancelAmount, releasing the quantity where the cost was reserved.
CancelAmountQuantity(order) == order.remaining

\* The amount cancel_order releases.
CancelAmount(order) ==
    IF order.side = "buy" THEN order.remaining * order.price ELSE order.remaining

\* The order record after cancel_order.
Canceled(order) == [order EXCEPT !.status = "canceled", !.remaining = 0]

\* cancel_order, releasing in the asset of the symbol it is called with, and
\* refusing a symbol the simulator does not have.
CancelOrderByArgument(order_id, symbol) ==
    IF order_id \notin DOMAIN orders
    THEN Raise("cancel_order", "OrderNotFound")
    ELSE LET order == orders[order_id]
         IN  IF Uncancelable(order.status) \/ symbol \notin DOMAIN current_prices
             THEN Raise("cancel_order", "CannotCancelClosedOrder")
             ELSE /\ balances' = Release(balances, ReservedAsset(symbol, order.side),
                                         CancelAmount(order))
                  /\ orders' = [orders EXCEPT ![order_id] = Canceled(order)]
                  /\ last' = [op |-> "cancel_order", err |-> "ok",
                              result |-> Canceled(order)]
                  /\ UNCHANGED <<order_counter, current_prices, history_draws>>

cancel_order(order_id, symbol) ==
    IF order_id \notin DOMAIN orders
    THEN Raise("cancel_order", "OrderNotFound")
    ELSE LET order == orders[order_id]
         IN  IF Uncancelable(order.status)
             THEN Raise("cancel_order", "CannotCancelClosedOrder")
             ELSE /\ balances' = Release(balances, ReservedAsset(order.symbol, order.side),
                                         CancelAmount(order))
                  /\ orders' = [orders EXCEPT ![order_id] = Canceled(order)]
                  /\ last' = [op |-> "cancel_order", err |-> "ok",
                              result |-> Canceled(order)]
                  /\ UNCHANGED <<order_counter, current_prices, history_draws>>

fetch_order(order_id, symbol) ==
    IF order_id \notin DOMAIN orders
    THEN Raise("fetch_order", "OrderNotFound")
    ELSE /\ last' = [op |-> "fetch_order", err |-> "ok", result |-> orders[order_id]]
         /\ UNCHANGED <<balances, orders, order_counter, current_prices, history_draws>>

\* The ids of the orders fetch_open_orders returns.
OpenOrders(symbol) ==
    {id \in DOMAIN orders :
        /\ orders[id].status = "open"
        /\ (symbol # None => orders[id].symbol = symbol[1])}

fetch_open_orders(symbol) ==
    /\ last' = [op |-> "fetch_open_orders", err |-> "ok", result |-> OpenOrders(symbol)]
    /\ UNCHANGED <<balances, orders, order_counter, current_prices, history_draws>>

\* The keys of the structure fetch_balance returns: 'free', 'used', 'total'.
KeyFree == <<"f", "r", "e", "e">>
KeyUsed == <<"u", "s", "e", "d">>
KeyTotal == <<"t", "o", "t", "a", "l">>

\* The structure fetch_balance returns: under each of the three keys, the
\* amounts of that kind by asset, the minor currencies at zero.
BalanceData ==
    LET minor == {XRP, DOGE, SHIB}
        field(f) == [a \in DOMAIN balances \cup minor |->
                        IF a \in minor THEN 0 ELSE balances[a][f]]
    IN  (KeyFree :> field("free")) @@ (KeyUsed :> field("used"))
            @@ (KeyTotal :> field("total"))

fetch_balance ==
    /\ last' = [op |-> "fetch_balance", err |-> "ok", result |-> BalanceData]
    /\ UNCHANGED <<balances, orders, order_counter, current_prices, history_draws>>

\* random.uniform(0.9995, 1.0005): new is within 0.05% (1/2000) of old.
InBand(old, new) ==
    /\ new * 2000 >= old * 1999
    /\ new * 2000 <= old * 2001

\* The ticker fetch_ticker returns, in 1/2000 of a tick: the spread is 0.05%
\* (1/2000) of the price read before the move.
Ticker(symbol, old, new) ==
    [symbol |-> symbol,
     last |-> new * 2000,
     bid |-> new * 2000 - old,
     ask |-> new * 2000 + old]

\* fetch_ticker, also filling the open buy orders whose limit the new price
\* has reached.
FetchTickerMatching(symbol) ==
    IF symbol \notin DOMAIN current_prices
    THEN Raise("fetch_ticker", "UnknownSymbol")
    ELSE \E new \in PriceGrid(symbol) :
            /\ InBand(current_prices[symbol], new)
            /\ current_prices' = [current_prices EXCEPT ![symbol] = new]
            /\ orders' = [id \in DOMAIN orders |->
                    IF /\ orders[id].status = "open"
                       /\ orders[id].side = "buy"
                       /\ orders[id].symbol = symbol
                       /\ new * 1000 <= orders[id].price
                    THEN [orders[id] EXCEPT !.status = "closed",
                                            !.filled = orders[id].amount,
                                            !.remaining = 0]
                    ELSE orders[id]]
            /\ last' = [op |-> "fetch_ticker", err |-> "ok",
                        result |-> Ticker(symbol, current_prices[symbol], new)]
            /\ UNCHANGED <<balances, order_counter, history_draws>>

\* fetch_ticker, storing the move under every symbol but the one asked for
\* as well.
FetchTickerAll(symbol) ==
    IF symbol \notin DOMAIN current_prices
    THEN Raise("fetch_ticker", "UnknownSymbol")
    ELSE \E new \in PriceGrid(symbol) :
            /\ InBand(current_prices[symbol], new)
            /\ current_prices' = [s \in DOMAIN current_prices |->
                    IF s = symbol THEN new
                    ELSE current_prices[s] + (new - current_prices[symbol])]
            /\ last' = [op |-> "fetch_ticker", err |-> "ok",
                        result |-> Ticker(symbol, current_prices[symbol], new)]
            /\ UNCHANGED <<balances, orders, order_counter, history_draws>>

fetch_ticker(symbol) ==
    IF symbol \notin DOMAIN current_prices
    THEN Raise("fetch_ticker", "UnknownSymbol")
    ELSE \E new \in PriceGrid(symbol) :
            /\ InBand(current_prices[symbol], new)
            /\ current_prices' = [current_prices EXCEPT ![symbol] = new]
            /\ last' = [op |-> "fetch_ticker", err |-> "ok",
                        result |-> Ticker(symbol, current_prices[symbol], new)]
            /\ UNCHANGED <<balances, orders, order_counter, history_draws>>

\* sorted(levels): a level is the list [price, size], compared by price and
\* then by size; reverse = TRUE sorts descending.
LevelBefore(x, y, reverse) ==
    IF x[1] # y[1] THEN (IF reverse THEN x[1] > y[1] ELSE x[1] < y[1])
    ELSE (IF reverse THEN x[2] >= y[2] ELSE x[2] <= y[2])

RECURSIVE InsertLevel(_, _, _)
InsertLevel(x, sorted, reverse) ==
    IF sorted = <<>> THEN <<x>>
    ELSE IF LevelBefore(x, Head(sorted), reverse) THEN <<x>> \o sorted
    ELSE <<Head(sorted)>> \o InsertLevel(x, Tail(sorted), reverse)

RECURSIVE SortLevels(_, _)
SortLevels(levels, reverse) ==
    IF levels = <<>> THEN <<>>
    ELSE InsertLevel(Head(levels), SortLevels(Tail(levels), reverse), reverse)

\* limit or 20
Depth(limit) == IF limit = None \/ limit[1] = 0 THEN DefaultDepth ELSE limit[1]

\* The order book fetch_order_book returns.
OrderBook(symbol, limit, sizes) ==
    LET price == current_prices[symbol]
        bids == [i \in 1..Depth(limit) |-> <<price * (10000 - i), sizes[i]>>]
        asks == [i \in 1..Depth(limit) |-> <<price * (10000 + i), sizes[i]>>]
    IN  [symbol |-> symbol, bids |-> SortLevels(bids, TRUE), asks |-> SortLevels(asks, FALSE)]

\* fetch_order_book, moving the stored price as fetch_ticker does.
FetchOrderBookMoving(symbol, limit) ==
    IF symbol \notin DOMAIN current_prices
    THEN Raise("fetch_order_book", "UnknownSymbol")
    ELSE \E sizes \in BookSizes :
            /\ last' = [op |-> "fetch_order_book", err |-> "ok",
                        result |-> OrderBook(symbol, limit, sizes)]
            /\ current_prices' = [current_prices EXCEPT ![symbol] = InitPrices[symbol] + 1]
            /\ UNCHANGED <<balances, orders, order_counter, history_draws>>

fetch_order_book(symbol, limit) ==
    IF symbol \notin DOMAIN current_prices
    THEN Raise("fetch_order_book", "UnknownSymbol")
    ELSE \E sizes \in BookSizes :
            /\ last' = [op |-> "fetch_order_book", err |-> "ok",
                        result |-> OrderBook(symbol, limit, sizes)]
            /\ UNCHANGED <<balances, orders, order_counter, current_prices, history_draws>>

\* candles[-limit:]
LastCandles(candles, limit) ==
    IF limit >= Len(candles) THEN candles
    ELSE SubSeq(candles, Len(candles) - limit + 1, Len(candles))

\* The candles fetch_ohlcv returns.
Ohlcv(symbol, limit) ==
    IF limit # None /\ limit[1] # 0
    THEN LastCandles(price_history[symbol], limit[1])
    ELSE price_history[symbol]

fetch_ohlcv(symbol, limit) ==
    IF symbol \notin DOMAIN current_prices
    THEN Raise("fetch_ohlcv", "UnknownSymbol")
    ELSE /\ last' = [op |-> "fetch_ohlcv", err |-> "ok", result |-> Ohlcv(symbol, limit)]
         /\ UNCHANGED <<balances, orders, order_counter, current_prices, history_draws>>

\* test_connection: the balance fetch has no failing path, so the call
\* returns True.
test_connection ==
    /\ last' = [op |-> "test_connection", err |-> "ok", result |-> TRUE]
    /\ UNCHANGED <<balances, orders, order_counter, current_prices, history_draws>>

Next ==
    \/ \E c \in CreateCalls : create_order(c[1], c[2], c[3], c[4], c[5])
    \/ \E order_id \in OrderIds, symbol \in CallSymbols : cancel_order(order_id, symbol)
    \/ \E order_id \in OrderIds, symbol \in CallSymbols : fetch_order(order_id, symbol)
    \/ \E symbol \in {None, Some(BTC_USDT)} : fetch_open_orders(symbol)
    \/ fetch_balance
    \/ \E symbol \in CallSymbols : fetch_ticker(symbol)

Spec == Init /\ [][Next]_vars

\* The calls of create_order offered beside the market-data reads.
ReadsCreateCalls ==
    {<<BTC_USDT, "limit", "buy", 1, Some(LimitPrice)>>,
     <<BTC_USDT, "limit", "sell", 1, Some(LimitPrice)>>,
     <<BTC_USDT, "market", "buy", 1, None>>}

\* The symbols cancel_order and fetch_order are called with: the orders'
\* own, another pair of the simulator, and a pair it does not have.
CancelSymbols == {BTC_USDT, ETH_USDT, XRP_USDT}

\* Every public method of the simulator.
NextReads ==
    \/ \E c \in ReadsCreateCalls : create_order(c[1], c[2], c[3], c[4], c[5])
    \/ \E order_id \in OrderIds, symbol \in CancelSymbols : cancel_order(order_id, symbol)
    \/ \E order_id \in OrderIds, symbol \in CancelSymbols : fetch_order(order_id, symbol)
    \/ \E symbol \in {None, Some(BTC_USDT)} : fetch_open_orders(symbol)
    \/ fetch_balance
    \/ \E symbol \in CallSymbols : fetch_ticker(symbol)
    \/ \E symbol \in BookSymbols, limit \in BookLimits : fetch_order_book(symbol, limit)
    \/ \E symbol \in BookSymbols, limit \in CandleLimits : fetch_ohlcv(symbol, limit)
    \/ test_connection

SpecReads == Init /\ [][NextReads]_vars

\* The candles of every symbol read, whole and in part, while orders are
\* placed and the price moves.
NextCandles ==
    \/ \E c \in ReadsCreateCalls : create_order(c[1], c[2], c[3], c[4], c[5])
    \/ \E order_id \in OrderIds : cancel_order(order_id, BTC_USDT)
    \/ fetch_ticker(BTC_USDT)
    \/ \E symbol \in CandleSymbols, limit \in CandleLimits : fetch_ohlcv(symbol, limit)

SpecCandles == Init /\ [][NextCandles]_vars

\* The limit price at which four lots cost the whole seed balance of USDT.
ExactPrice == InitUSDT \div 4

\* The calls of create_order that exhaust a balance: one lot, and four lots
\* (of the 4.44 lots of BTC the seed USDT buys at the initial price).
FundsCreateCalls ==
    ({BTC_USDT} \X {"market", "limit"} \X {"buy"} \X {1, 4} \X {Some(LimitPrice)})
    \cup {<<BTC_USDT, "limit", "buy", 4, Some(ExactPrice)>>}
    \cup ({BTC_USDT} \X {"market", "limit"} \X {"sell"} \X {1} \X {Some(LimitPrice)})

\* Orders placed and canceled while the price moves.
NextFunds ==
    \/ \E c \in FundsCreateCalls : create_order(c[1], c[2], c[3], c[4], c[5])
    \/ \E order_id \in OrderIds : cancel_order(order_id, BTC_USDT)
    \/ fetch_ticker(BTC_USDT)

SpecFunds == Init /\ [][NextFunds]_vars

(* ----------------------------- MockClient ----------------------------- *)

BUSD == <<"B", "U", "S", "D">>
USDC == <<"U", "S", "D", "C">>

\* quote_currencies, in the order _convert_symbol tries them.
QuoteCurrencies == <<USDT, BUSD, USDC, BTC, ETH, BNB>>

\* The characters str.isalpha accepts (the ASCII ones).
Alpha ==
    {"A", "B", "C", "D", "E", "F", "G", "H", "I", "J", "K", "L", "M", "N", "O",
     "P", "Q", "R", "S", "T", "U", "V", "W", "X", "Y", "Z", "a", "b", "c", "d",
     "e", "f", "g", "h", "i", "j", "k", "l", "m", "n", "o", "p", "q", "r", "s",
     "t", "u", "v", "w", "x", "y", "z"}

\* '/' in symbol
HasSlash(symbol) == \E i \in 1..Len(symbol) : symbol[i] = "/"

\* symbol.endswith(quote)
EndsWith(symbol, quote) ==
    /\ Len(symbol) >= Len(quote)
    /\ SubSeq(symbol, Len(symbol) - Len(quote) + 1, Len(symbol)) = quote

\* symbol[:-n] and symbol[-n:]
DropLast(symbol, n) == SubSeq(symbol, 1, Len(symbol) - n)
TakeLast(symbol, n) == SubSeq(symbol, Len(symbol) - n + 1, Len(symbol))

\* The loop over quote_currencies from the k-th on: the first quote the
\* symbol ends with splits it; if none does, the last four characters are
\* taken for the quote when there are more than four and these are letters.
RECURSIVE SplitByQuote(_, _)
SplitByQuote(symbol, k) ==
    IF k > Len(QuoteCurrencies)
    THEN IF Len(symbol) > 4 /\ \A i \in 1..4 : TakeLast(symbol, 4)[i] \in Alpha
         THEN DropLast(symbol, 4) \o <<"/">> \o TakeLast(symbol, 4)
         ELSE symbol
    ELSE IF EndsWith(symbol, QuoteCurrencies[k])
         THEN DropLast(symbol, Len(QuoteCurrencies[k])) \o <<"/">> \o QuoteCurrencies[k]
         ELSE SplitByQuote(symbol, k + 1)

\* ConvertSymbol, never looking for a known quote.
ConvertSymbolLastFour(symbol) ==
    IF HasSlash(symbol) THEN symbol ELSE SplitByQuote(symbol, Len(QuoteCurrencies) + 1)

\* MockClient._convert_symbol
ConvertSymbol(symbol) ==
    IF HasSlash(symbol) THEN symbol ELSE SplitByQuote(symbol, 1)

\* str.lower and str.upper on the words the client passes through them.
Lower(word) ==
    CASE word \in {"BUY", "Buy", "buy"} -> "buy"
      [] word \in {"SELL", "Sell", "sell"} -> "sell"
      [] word \in {"MARKET", "Market", "market"} -> "market"
      [] word \in {"LIMIT", "Limit", "limit"} -> "limit"
      [] word \in {"HOLD", "hold"} -> "hold"
      [] word \in {"STOP", "stop"} -> "stop"
Upper(word) ==
    CASE word \in {"BUY", "Buy", "buy"} -> "BUY"
      [] word \in {"SELL", "Sell", "sell"} -> "SELL"
      [] word \in {"MARKET", "Market", "market"} -> "MARKET"
      [] word \in {"LIMIT", "Limit", "limit"} -> "LIMIT"
      [] word \in {"HOLD", "hold"} -> "HOLD"
      [] word \in {"STOP", "stop"} -> "STOP"
      [] word = "open" -> "OPEN"
      [] word = "closed" -> "CLOSED"
      [] word = "canceled" -> "CANCELED"

\* symbol.replace('/', '')
RemoveSlash(symbol) == SelectSeq(symbol, LAMBDA ch : ch # "/")

\* float('nan'), which every comparison answers with False and every sum or
\* product carries on.  It is the one float that is not a number of the
\* model's units, and stands here as an integer no amount reaches.
NaN == 0 - 2000000000

\* The arithmetic and the comparisons of floats.
FTimes(a, b) == IF a = NaN \/ b = NaN THEN NaN ELSE a * b
FPlus(a, b) == IF a = NaN \/ b = NaN THEN NaN ELSE a + b
FMinus(a, b) == IF a = NaN \/ b = NaN THEN NaN ELSE a - b
FLess(a, b) == a # NaN /\ b # NaN /\ a < b
FLessEq(a, b) == a # NaN /\ b # NaN /\ a <= b

\* str(x) of a number: 'nan', or its sign and its decimal digits.  (The
\* numbers are counted in the model's units; str and float of Python are
\* exact inverses on floats, as NumStr and FloatOf are here.)
NumStr(x) ==
    IF x = NaN THEN [nan |-> TRUE, negative |-> FALSE, digits |-> <<>>]
    ELSE [nan |-> FALSE, negative |-> x < 0, digits |-> Str(IF x < 0 THEN 0 - x ELSE x)]

\* float(s) of the text of a number.
FloatOf(s) ==
    IF s.nan THEN NaN
    ELSE IF s.negative THEN 0 - IntOf(s.digits) ELSE IntOf(s.digits)

\* order.get('timeInForce', 'GTC') if order['type'] == 'limit' else None:
\* the simulator's orders have no timeInForce.
TimeInForce(order) == IF order.type = "limit" THEN Some("GTC") ELSE None

\* The fields of the response that are texts of numbers.
NumericFields(order) ==
    [origQty |-> NumStr(order.amount),
     price |-> IF order.price # 0 THEN NumStr(order.price) ELSE NumStr(0),
     executedQty |-> NumStr(order.filled),
     cumulativeQuoteQty |-> NumStr(order.cost),
     avgPrice |-> NumStr(order.average),
     timeInForce |-> TimeInForce(order)]

\* FormatToBinanceResponse, passing the simulator's words through as they are.
FormatVerbatim(order) ==
    [orderId |-> IntOf(order.id),
     symbol |-> RemoveSlash(order.symbol),
     status |-> order.status,
     side |-> order.side,
     type |-> order.type] @@ NumericFields(order)

\* FormatToBinanceResponse, with the id's last digit taken for the id.
FormatLastDigit(order) ==
    [orderId |-> order.id[Len(order.id)],
     symbol |-> RemoveSlash(order.symbol),
     status |-> Upper(order.status),
     side |-> Upper(order.side),
     type |-> Upper(order.type)] @@ NumericFields(order)

\* MockClient._format_to_binance_response: the order in the form of a
\* Binance response.  (updateTime, the order's creation time, is left out:
\* the model keeps no clock.)
FormatToBinanceResponse(order) ==
    [orderId |-> IntOf(order.id),
     symbol |-> RemoveSlash(order.symbol),
     status |-> Upper(order.status),
     side |-> Upper(order.side),
     type |-> Upper(order.type)] @@ NumericFields(order)

\* MockClient.place_order: the arguments converted, exchange.create_order,
\* the order formatted.  Any exception goes on to the caller.
place_order(symbol, side, order_type, quantity, price) ==
    LET mock_symbol == ConvertSymbol(symbol)
        mock_side == Lower(side)
        mock_type == Lower(order_type)
    IN  /\ order_counter < FirstOrderId + MaxOrders
        /\ IF Validate(mock_symbol, mock_type, mock_side) # "ok"
           THEN Raise("place_order", Validate(mock_symbol, mock_type, mock_side))
           ELSE LET order_price == OrderPrice(mock_symbol, mock_type, mock_side, price)
                    asset == ReservedAsset(mock_symbol, mock_side)
                    needed == Needed(mock_side, quantity, order_price)
                    order_id == Str(order_counter)
                    order == NewOrder(order_id, mock_symbol, mock_type, mock_side,
                                      quantity, price)
                IN  IF asset \notin DOMAIN balances
                    THEN Raise("place_order", "KeyError")
                    ELSE IF Insufficient(balances[asset].free, needed)
                    THEN Raise("place_order", "InsufficientFunds")
                    ELSE /\ balances' = Reserve(balances, asset, needed)
                         /\ order_counter' = NextCounter(order_counter)
                         /\ orders' = Store(orders, order_id, order)
                         /\ last' = [op |-> "place_order", err |-> "ok",
                                     result |-> FormatToBinanceResponse(order)]
                         /\ UNCHANGED <<current_prices, history_draws>>

\* MockClient.get_order: exchange.fetch_order(str(order_id), ...), formatted.
get_order(symbol, order_id) ==
    IF Str(order_id) \notin DOMAIN orders
    THEN Raise("get_order", "OrderNotFound")
    ELSE /\ last' = [op |-> "get_order", err |-> "ok",
                     result |-> FormatToBinanceResponse(orders[Str(order_id)])]
         /\ UNCHANGED <<balances, orders, order_counter, current_prices, history_draws>>

\* MockClient.cancel_order: exchange.cancel_order(str(order_id), ...),
\* formatted.
client_cancel_order(symbol, order_id) ==
    IF Str(order_id) \notin DOMAIN orders
    THEN Raise("client.cancel_order", "OrderNotFound")
    ELSE LET order == orders[Str(order_id)]
         IN  IF Uncancelable(order.status)
             THEN Raise("client.cancel_order", "CannotCancelClosedOrder")
             ELSE /\ balances' = Release(balances, ReservedAsset(order.symbol, order.side),
                                         CancelAmount(order))
                  /\ orders' = [orders EXCEPT ![Str(order_id)] = Canceled(order)]
                  /\ last' = [op |-> "client.cancel_order", err |-> "ok",
                              result |-> FormatToBinanceResponse(Canceled(order))]
                  /\ UNCHANGED <<order_counter, current_prices, history_draws>>

\* get_account_balance reads data['total'] for every (asset, data) of
\* fetch_balance()['total']; data is an amount, and subscripting an amount
\* raises TypeError.  The comprehension therefore raises unless there is no
\* asset at all, and the method turns any exception into a MockExchangeError.
AccountBalanceRaises == DOMAIN BalanceData[KeyTotal] # {}

\* MockClient.get_account_balance
get_account_balance ==
    IF AccountBalanceRaises
    THEN Raise("get_account_balance", "FailedToFetchBalance")
    ELSE /\ last' = [op |-> "get_account_balance", err |-> "ok", result |-> <<>>]
         /\ UNCHANGED <<balances, orders, order_counter, current_prices, history_draws>>

\* MockClient.test_connection: True if get_account_balance returns and its
\* list of assets has a first element, False on any exception.
client_test_connection ==
    /\ last' = [op |-> "client.test_connection", err |-> "ok",
                result |-> IF AccountBalanceRaises THEN FALSE
                           ELSE DOMAIN BalanceData[KeyTotal] # {}]
    /\ UNCHANGED <<balances, orders, order_counter, current_prices, history_draws>>

\* _convert_symbol called on its own: the outcome records the argument.
convert_symbol(symbol) ==
    /\ last' = [op |-> "_convert_symbol", err |-> "ok",
                result |-> ConvertSymbol(symbol), arg |-> symbol]
    /\ UNCHANGED <<balances, orders, order_counter, current_prices, history_draws>>

\* The symbols given to the client: the five pairs concatenated, a pair with
\* a slash, pairs with other quotes, a quote alone, and symbols no quote
\* ends: of eight letters, of three, in lower case, and ending in digits.
BTCUSDT == BTC \o USDT
ADAUSDT == SplitBase(ADA_USDT) \o USDT
ClientSymbols ==
    {BTCUSDT, ETH \o USDT, BNB \o USDT, ADAUSDT, SplitBase(SOL_USDT) \o USDT,
     BTC_USDT, ETH \o BTC, BNB \o BUSD, ETH \o USDC, USDT,
     <<"A", "B", "C", "D", "E", "F", "G", "H">>, <<"X", "Y", "Z">>,
     <<"b", "t", "c", "u", "s", "d", "t">>, <<"A", "B", "C", "1", "2", "3", "4">>}

\* The calls of place_order: (symbol, side, order_type, quantity, price).
PlaceCalls ==
    {<<BTCUSDT, "BUY", "LIMIT", 1, Some(LimitPrice)>>,
     <<BTCUSDT, "SELL", "LIMIT", 1, Some(LimitPrice)>>,
     <<BTCUSDT, "Buy", "MARKET", 1, None>>,
     <<BTC_USDT, "sell", "market", 1, None>>,
     <<ETH \o BTC, "BUY", "MARKET", 1, None>>,
     <<BTCUSDT, "HOLD", "LIMIT", 1, Some(LimitPrice)>>,
     <<ADAUSDT, "SELL", "MARKET", 1, None>>}

\* The order ids given to the client: integers.
ClientOrderIds == FirstOrderId..(FirstOrderId + MaxOrders)

\* The client's calls, and test_connection on the exchange it wraps.
NextClient ==
    \/ \E c \in PlaceCalls : place_order(c[1], c[2], c[3], c[4], c[5])
    \/ \E order_id \in ClientOrderIds : get_order(BTCUSDT, order_id)
    \/ \E order_id \in ClientOrderIds : client_cancel_order(BTCUSDT, order_id)
    \/ get_account_balance
    \/ client_test_connection
    \/ test_connection
    \/ \E symbol \in ClientSymbols : convert_symbol(symbol)

SpecClient == Init /\ [][NextClient]_vars

(* ---------------------------- OrderManager ---------------------------- *)

\* The quantities given to OrderManager are counted in hundredths of a lot
\* (0.0005 BTC), so that there is a positive quantity below the minimum; the
\* ones offered that pass the validation are whole lots.
QuantityScale == 100
Lots(quantity) == IF quantity = NaN THEN NaN ELSE quantity \div QuantityScale

\* config.MIN_ORDER_QUANTITY (0.001) and config.MAX_ORDER_QUANTITY (1000).
MinOrderQuantity == 2
MaxOrderQuantity == 2000000

UpperCase ==
    <<"A", "B", "C", "D", "E", "F", "G", "H", "I", "J", "K", "L", "M", "N", "O",
      "P", "Q", "R", "S", "T", "U", "V", "W", "X", "Y", "Z">>
LowerCase ==
    <<"a", "b", "c", "d", "e", "f", "g", "h", "i", "j", "k", "l", "m", "n", "o",
      "p", "q", "r", "s", "t", "u", "v", "w", "x", "y", "z">>
Digits == {"0", "1", "2", "3", "4", "5", "6", "7", "8", "9"}

\* symbol.upper()
UpperChar(ch) ==
    IF \E i \in 1..Len(LowerCase) : LowerCase[i] = ch
    THEN UpperCase[CHOOSE i \in 1..Len(LowerCase) : LowerCase[i] = ch]
    ELSE ch
UpperSymbol(symbol) == [i \in 1..Len(symbol) |-> UpperChar(symbol[i])]

\* symbol.strip(): the blanks at both ends removed.
Strip(symbol) ==
    LET inked == {i \in 1..Len(symbol) : symbol[i] # " "}
    IN  IF inked = {} THEN <<>>
        ELSE SubSeq(symbol,
                    CHOOSE i \in inked : \A j \in inked : i <= j,
                    CHOOSE i \in inked : \A j \in inked : i >= j)

\* re.match(r'^[A-Z0-9]{6,}$', symbol)
MatchesSymbolFormat(symbol) ==
    /\ Len(symbol) >= 6
    /\ \A i \in 1..Len(symbol) :
          symbol[i] \in Digits \/ \E k \in 1..Len(UpperCase) : UpperCase[k] = symbol[i]

\* validate_symbol: the symbol it returns, and the error it raises.
ValidSymbol(symbol) == Strip(UpperSymbol(symbol))
ValidateSymbol(symbol) ==
    IF ValidSymbol(symbol) = <<>> THEN "Symbol cannot be empty"
    ELSE IF ~MatchesSymbolFormat(ValidSymbol(symbol)) THEN "Invalid symbol format"
    ELSE "ok"

\* validate_side
ValidateSide(side) ==
    IF Upper(side) \notin {"BUY", "SELL"} THEN "Invalid side" ELSE "ok"

\* validate_order_type
ValidateOrderType(order_type) ==
    IF Upper(order_type) \notin {"MARKET", "LIMIT", "STOP_LOSS", "TAKE_PROFIT"}
    THEN "Invalid order type" ELSE "ok"

\* validate_quantity.  A quantity is None for an argument float() refuses.
ValidateQuantity(quantity) ==
    IF quantity = None THEN "Invalid quantity"
    ELSE IF FLessEq(quantity[1], 0) THEN "Quantity must be greater than 0"
    ELSE IF FLess(quantity[1], MinOrderQuantity) THEN "Quantity is below minimum"
    ELSE IF FLess(MaxOrderQuantity, quantity[1]) THEN "Quantity exceeds maximum"
    ELSE "ok"

\* validate_price
ValidatePrice(price) ==
    IF price = None THEN "ok"
    ELSE IF FLessEq(price[1], 0) THEN "Price must be greater than 0"
    ELSE "ok"

\* validate_order_params: the first check that fails.
ValidateOrderParams(symbol, side, order_type, quantity, price) ==
    IF ValidateSymbol(symbol) # "ok" THEN ValidateSymbol(symbol)
    ELSE IF ValidateSide(side) # "ok" THEN ValidateSide(side)
    ELSE IF ValidateOrderType(order_type) # "ok" THEN ValidateOrderType(order_type)
    ELSE IF ValidateQuantity(quantity) # "ok" THEN ValidateQuantity(quantity)
    ELSE IF Upper(order_type) = "LIMIT" /\ price = None
    THEN "Price is required for LIMIT orders"
    ELSE ValidatePrice(price)

\* OrderManager._format_order_response: response.get(key, 0) turned into a
\* float; for price and avgPrice only if the text is not empty, which the
\* text of a number never is.  (createTime, the response's updateTime, is
\* left out: the model keeps no clock.)
FormatOrderResponse(response) ==
    [orderId |-> response.orderId,
     symbol |-> response.symbol,
     status |-> response.status,
     side |-> response.side,
     type |-> response.type,
     quantity |-> IF "origQty" \in DOMAIN response
                  THEN FloatOf(response["origQty"]) ELSE 0,
     price |-> IF "price" \in DOMAIN response
               THEN Some(FloatOf(response["price"])) ELSE None,
     executedQty |-> IF "executedQty" \in DOMAIN response
                     THEN FloatOf(response["executedQty"]) ELSE 0,
     cumulativeQuoteQty |-> IF "cumQuote" \in DOMAIN response
                            THEN FloatOf(response["cumQuote"]) ELSE 0,
     avgPrice |-> IF "avgPrice" \in DOMAIN response
                  THEN FloatOf(response["avgPrice"]) ELSE 0,
     timeInForce |-> response.timeInForce]

\* A call on OrderManager that raises; called tells whether client.place_order
\* was called before it did.
ManagerRaise(op, err, message, called) ==
    /\ last' = [op |-> op, err |-> err, result |-> None,
                message |-> message, called |-> called]
    /\ UNCHANGED <<balances, orders, order_counter, current_prices, history_draws>>

\* The order record create_order stores for a float amount and price.
FloatOrder(order_id, symbol, order_type, side, amount, price) ==
    LET order_price == OrderPrice(symbol, order_type, side, price)
        filled == IF AsMarket(order_type, price) THEN amount ELSE 0
    IN  [id |-> order_id,
         symbol |-> symbol,
         type |-> order_type,
         side |-> side,
         price |-> order_price,
         amount |-> amount,
         cost |-> FTimes(amount, order_price),
         average |-> order_price,
         filled |-> filled,
         remaining |-> FMinus(amount, filled),
         status |-> IF AsMarket(order_type, price) THEN "closed" ELSE "open"]

\* client.place_order of MockClient as OrderManager calls it, the response
\* formatted by _format_order_response: the arithmetic of create_order on
\* floats, one of which may be NaN.
Forward(op, symbol, side, order_type, quantity, price) ==
    LET mock_symbol == ConvertSymbol(symbol)
        mock_side == Lower(side)
        mock_type == Lower(order_type)
        amount == Lots(quantity)
    IN  IF Validate(mock_symbol, mock_type, mock_side) # "ok"
        THEN ManagerRaise(op, Validate(mock_symbol, mock_type, mock_side), "", TRUE)
        ELSE LET order_price == OrderPrice(mock_symbol, mock_type, mock_side, price)
                 asset == ReservedAsset(mock_symbol, mock_side)
                 needed == IF mock_side = "buy" THEN FTimes(amount, order_price)
                           ELSE amount
                 order_id == Str(order_counter)
                 order == FloatOrder(order_id, mock_symbol, mock_type, mock_side,
                                     amount, price)
             IN  IF asset \notin DOMAIN balances
                 THEN ManagerRaise(op, "KeyError", "", TRUE)
                 ELSE IF FLess(balances[asset].free, needed)
                 THEN ManagerRaise(op, "InsufficientFunds", "", TRUE)
                 ELSE /\ balances' = [balances EXCEPT
                                         ![asset].free = FMinus(@, needed),
                                         ![asset].used = FPlus(@, needed)]
                      /\ order_counter' = NextCounter(order_counter)
                      /\ orders' = Store(orders, order_id, order)
                      /\ last' = [op |-> op, err |-> "ok",
                                  result |-> FormatOrderResponse(
                                                 FormatToBinanceResponse(order)),
                                  message |-> "", called |-> TRUE]
                      /\ UNCHANGED <<current_prices, history_draws>>

\* OrderManager.place_market_order
place_market_order(symbol, side, quantity) ==
    /\ order_counter < FirstOrderId + MaxOrders
    /\ LET error == ValidateOrderParams(symbol, side, "MARKET", quantity, None)
       IN  IF error # "ok"
           THEN ManagerRaise("place_market_order", "ValidationError", error, FALSE)
           ELSE Forward("place_market_order", ValidSymbol(symbol), Upper(side),
                        "MARKET", quantity[1], None)

\* OrderManager.place_limit_order
place_limit_order(symbol, side, quantity, price) ==
    /\ order_counter < FirstOrderId + MaxOrders
    /\ LET error == ValidateOrderParams(symbol, side, "LIMIT", quantity, price)
       IN  IF error # "ok"
           THEN ManagerRaise("place_limit_order", "ValidationError", error, FALSE)
           ELSE Forward("place_limit_order", ValidSymbol(symbol), Upper(side),
                        "LIMIT", quantity[1], price)

\* OrderManager.get_order_status: client.get_order, formatted.
get_order_status(symbol, order_id) ==
    IF Str(order_id) \notin DOMAIN orders
    THEN ManagerRaise("get_order_status", "OrderNotFound", "", FALSE)
    ELSE /\ last' = [op |-> "get_order_status", err |-> "ok",
                     result |-> FormatOrderResponse(
                                    FormatToBinanceResponse(orders[Str(order_id)])),
                     message |-> "", called |-> FALSE]
         /\ UNCHANGED <<balances, orders, order_counter, current_prices, history_draws>>

\* The arguments given to OrderManager: symbols well and ill formed, sides,
\* quantities (one lot, none, a negative one, one below the minimum, one
\* above the maximum, NaN, and no number at all) and prices.
ManagerSymbols ==
    {BTCUSDT, <<"b", "t", "c", "u", "s", "d", "t", " ">>, BTC_USDT,
     <<"X", "Y", "Z">>, <<" ">>, <<"A", "B", "C", "D", "E", "F", "G", "H">>}
ManagerQuantities ==
    {Some(QuantityScale), Some(0), Some(0 - QuantityScale), Some(1),
     Some(MaxOrderQuantity + QuantityScale), Some(NaN), None}
ManagerPrices == {None, Some(LimitPrice), Some(0), Some(0 - LimitPrice), Some(NaN)}

MarketCalls ==
    (ManagerSymbols \X {"BUY"} \X {Some(QuantityScale)})
    \cup ({BTCUSDT} \X {"BUY", "sell", "HOLD"} \X {Some(QuantityScale)})
    \cup ({BTCUSDT} \X {"BUY"} \X ManagerQuantities)
LimitCalls ==
    ({BTCUSDT} \X {"BUY", "SELL"} \X {Some(QuantityScale)} \X ManagerPrices)
    \cup ({BTCUSDT, BTC_USDT} \X {"SELL", "HOLD"} \X {Some(QuantityScale), Some(0)}
              \X {Some(LimitPrice)})

\* Orders placed and looked up through OrderManager over MockClient.
NextManager ==
    \/ \E c \in MarketCalls : place_market_order(c[1], c[2], c[3])
    \/ \E c \in LimitCalls : place_limit_order(c[1], c[2], c[3], c[4])
    \/ \E order_id \in ClientOrderIds : get_order_status(BTCUSDT, order_id)

SpecManager == Init /\ [][NextManager]_vars

(* ------------------------------ claims -------------------------------- *)

\* The call that made the last step returned normally.
Returned(op) == last.op = op /\ last.err = "ok"
ReturnedNext(op) == last'.op = op /\ last'.err = "ok"

\* C1: in every reachable state, whatever calls led to it and whether they
\* failed or not, every asset of the ledger has total = free + used.
C1_TotalIsFreePlusUsed ==
    \A a \in DOMAIN balances :
        balances[a].total = balances[a].free + balances[a].used

\* C1 witness: an order has been created and funds are reserved.
C1_Witness ==
    /\ Returned("create_order")
    /\ \E a \in DOMAIN balances : balances[a].used > 0

\* C2: in every reachable state every asset has free >= 0 and used >= 0,
\* whatever amount and price create_order was given.
C2_NonNegative ==
    \A a \in DOMAIN balances : balances[a].free >= 0 /\ balances[a].used >= 0

\* C3: a successful market buy of amount a at execution price p decreases
\* the quote asset's free by a*p and increases the base asset's total by a
\* (stated for the amounts a > 0).
C3_MarketBuyDeltas ==
    [][(/\ ReturnedNext("create_order")
        /\ last'.result.type = "market"
        /\ last'.result.side = "buy"
        /\ last'.result.amount > 0)
       => LET o == last'.result
              base == SplitBase(o.symbol)
              quote == SplitQuote(o.symbol)
          IN  /\ balances'[quote].free = balances[quote].free - o.amount * o.price
              /\ balances'[base].total = balances[base].total + o.amount]_vars

\* C4: a successful market order is settled within the call.  Buy: quote
\* used is back at its value before the call, quote total has dropped by
\* a*p, base free and total have grown by a.  Sell: base used is back at
\* its value before the call, base total has dropped by a, quote free and
\* total have grown by a*p (stated for the amounts a > 0).
C4_MarketOrderSettled ==
    [][(/\ ReturnedNext("create_order")
        /\ last'.result.type = "market"
        /\ last'.result.amount > 0)
       => LET o == last'.result
              base == SplitBase(o.symbol)
              quote == SplitQuote(o.symbol)
              gives == IF o.side = "buy" THEN quote ELSE base
              gets == IF o.side = "buy" THEN base ELSE quote
              paid == IF o.side = "buy" THEN o.amount * o.price ELSE o.amount
              got == IF o.side = "buy" THEN o.amount ELSE o.amount * o.price
          IN  /\ balances'[gives].used = balances[gives].used
              /\ balances'[gives].total = balances[gives].total - paid
              /\ balances'[gets].free = balances[gets].free + got
              /\ balances'[gets].total = balances[gets].total + got]_vars

\* What an order reserves of an asset if it is open: remaining*price of the
\* quote asset for a buy, remaining of the base asset for a sell.
C5_Held(o, asset) ==
    IF o.status # "open" THEN 0
    ELSE IF o.side = "buy" /\ SplitQuote(o.symbol) = asset THEN o.remaining * o.price
    ELSE IF o.side = "sell" /\ SplitBase(o.symbol) = asset THEN o.remaining
    ELSE 0

\* The sum of C5_Held over the orders with the given ids.
RECURSIVE C5_HeldBy(_, _)
C5_HeldBy(ids, asset) ==
    IF ids = {} THEN 0
    ELSE LET id == CHOOSE x \in ids : TRUE
         IN  C5_Held(orders[id], asset) + C5_HeldBy(ids \ {id}, asset)

\* C5: in every reachable state every asset's used balance is the sum of
\* the reservations of the open orders; closed and canceled orders hold none
\* (stated for the states whose orders all have an amount > 0).
C5_UsedIsOpenReservations ==
    (\A id \in DOMAIN orders : orders[id].amount > 0)
    => \A a \in DOMAIN balances : balances[a].used = C5_HeldBy(DOMAIN orders, a)

\* What a limit order reserves when it is created: amount*price of the quote
\* asset for a buy, amount of the base asset for a sell.
C6_Reservation(o) == IF o.side = "buy" THEN o.amount * o.price ELSE o.amount
C6_Asset(o) == IF o.side = "buy" THEN SplitQuote(o.symbol) ELSE SplitBase(o.symbol)

\* bal with amount moved from the asset's free to its used, nothing else changed.
C6_Moved(bal, asset, amount) ==
    [a \in DOMAIN bal |->
        IF a = asset
        THEN [free |-> bal[a].free - amount, used |-> bal[a].used + amount,
              total |-> bal[a].total]
        ELSE bal[a]]

\* C6: cancel_order on an open limit order moves exactly the order's
\* remaining reservation from used back to free, sets its status to canceled
\* and its remaining to 0; and that reservation is exactly what the order's
\* creation moved from free to used, so that the creation and the cancel
\* together leave every asset's free, used and total as they were, whatever
\* calls came between (no call changes the amount, price, side or symbol of
\* a stored order).
C6_CancelRestores ==
    [][/\ (ReturnedNext("create_order") /\ last'.result.status = "open")
          => balances' = C6_Moved(balances, C6_Asset(last'.result),
                                  C6_Reservation(last'.result))
       /\ \A id \in DOMAIN orders :
            /\ id \in DOMAIN orders'
            /\ orders'[id].amount = orders[id].amount
            /\ orders'[id].price = orders[id].price
            /\ orders'[id].side = orders[id].side
            /\ orders'[id].symbol = orders[id].symbol
            /\ (/\ ReturnedNext("cancel_order")
                /\ last'.result.id = id
                /\ orders[id].status = "open")
               => LET o == orders[id]
                      left == IF o.side = "buy" THEN o.remaining * o.price
                              ELSE o.remaining
                  IN  /\ left = C6_Reservation(o)
                      /\ balances' = C6_Moved(balances, C6_Asset(o), -left)
                      /\ orders'[id].status = "canceled"
                      /\ orders'[id].remaining = 0
                      /\ last'.result = orders'[id]]_vars

\* C6 witness: a limit buy was created, another order was created after it,
\* and the limit buy has just been canceled.
C6_Witness ==
    /\ Returned("cancel_order")
    /\ last.result.id = Str(FirstOrderId)
    /\ last.result.side = "buy"
    /\ last.result.amount > 0
    /\ last.result.filled = 0
    /\ Str(FirstOrderId + 1) \in DOMAIN orders

\* C7: cancel_order on an order that is already canceled fails, so that at
\* most one cancel_order call on an id succeeds.
C7_SecondCancelFails ==
    [][\A id \in DOMAIN orders : \A symbol \in CallSymbols :
        (orders[id].status = "canceled" /\ cancel_order(id, symbol))
        => last'.err # "ok"]_vars

\* C8: cancel_order on a closed order fails with CannotCancelClosedOrder and
\* leaves the order record, every balance and the id counter unchanged.
C8_CancelClosedFails ==
    [][\A id \in DOMAIN orders : \A symbol \in CallSymbols :
        (orders[id].status = "closed" /\ cancel_order(id, symbol))
        => /\ last'.err = "CannotCancelClosedOrder"
           /\ orders' = orders
           /\ balances' = balances
           /\ order_counter' = order_counter]_vars

\* C8 witness: a cancel_order call on a closed order has just failed.
C8_Witness ==
    /\ last.op = "cancel_order"
    /\ last.err = "CannotCancelClosedOrder"
    /\ \E id \in DOMAIN orders : orders[id].status = "closed"

\* C9: cancel_order and fetch_order with an id that create_order has not
\* returned fail with OrderNotFound and leave balances, the order registry
\* and the prices unchanged.
C9_UnknownIdFails ==
    [][\A id \in OrderIds \ DOMAIN orders : \A symbol \in CallSymbols :
        (cancel_order(id, symbol) \/ fetch_order(id, symbol))
        => /\ last'.err = "OrderNotFound"
           /\ balances' = balances
           /\ orders' = orders
           /\ current_prices' = current_prices]_vars

\* C9 witness: with an order stored, a call has just failed with OrderNotFound.
C9_Witness ==
    /\ last.op \in {"cancel_order", "fetch_order"}
    /\ last.err = "OrderNotFound"
    /\ orders # <<>>

\* C10: an order becomes canceled only from open, an open order becomes
\* nothing but canceled, and a closed or canceled order never changes again,
\* in its status or in any other field.
C10_Lifecycle ==
    [][\A id \in DOMAIN orders :
        /\ id \in DOMAIN orders'
        /\ orders[id].status \in {"open", "closed", "canceled"}
        /\ orders[id].status = "open" => orders'[id].status \in {"open", "canceled"}
        /\ orders[id].status \in {"closed", "canceled"} => orders'[id] = orders[id]]_vars

\* C10 witness: a closed order is stored beside an order that cancel_order
\* has just returned as canceled.
C10_Witness ==
    /\ \E id \in DOMAIN orders : orders[id].status = "closed"
    /\ Returned("cancel_order")
    /\ last.result.status = "canceled"
    /\ balances # InitBalances

\* C11: an open limit order stays open, with its filled and remaining
\* quantities as they are, through every step that is not a successful
\* cancel_order on its own id: creating or canceling another order, any
\* read, and a fetch_ticker that moves the price across its limit.
C11_OpenUntilCanceled ==
    [][\A id \in DOMAIN orders :
          (/\ orders[id].status = "open"
           /\ ~(ReturnedNext("cancel_order") /\ last'.result.id = id))
          => /\ id \in DOMAIN orders'
             /\ orders'[id].status = "open"
             /\ orders'[id].filled = orders[id].filled
             /\ orders'[id].remaining = orders[id].remaining]_vars

\* fetch_ticker has just moved the price from above the limit of an open buy
\* order to below it, and the order is still open.
C11_Witness ==
    /\ Returned("fetch_ticker")
    /\ last.result.symbol = BTC_USDT
    /\ \E id \in DOMAIN orders :
          /\ orders[id].status = "open"
          /\ orders[id].side = "buy"
          /\ orders[id].filled = 0
          /\ current_prices[BTC_USDT] * 1000 < orders[id].price
          /\ orders[id].price < (last.result.last - last.result.bid) * 1000

\* C12: every successful create_order returns an id that, read as an
\* integer, is greater than the id of every order stored before, and stores
\* the order under that id without replacing another: no two orders share
\* an id.
C12_IdsIncrease ==
    [][(ReturnedNext("create_order") /\ orders' # orders)
          => /\ \A id \in DOMAIN orders : IntOf(id) < IntOf(last'.result.id)
             /\ DOMAIN orders' = DOMAIN orders \cup {last'.result.id}
             /\ \A id \in DOMAIN orders : orders'[id] = orders[id]
             /\ \A id \in DOMAIN orders' : orders'[id].id = id]_vars

\* A second order has been created: it has the id after the first one's.
C12_Witness ==
    /\ Returned("create_order")
    /\ IntOf(last.result.id) = FirstOrderId + 1
    /\ DOMAIN orders = {Str(FirstOrderId), Str(FirstOrderId + 1)}

\* The price create_order is asked to trade at.
C13_Price(c) ==
    IF c[2] = "market"
    THEN current_prices[c[1]] * (IF c[3] = "buy" THEN SlippageBuy ELSE SlippageSell)
    ELSE c[5][1]

\* C13: a buy that needs more quote asset than is free, and a sell of more
\* base asset than is free, fail with InsufficientFunds and leave the
\* balances, the stored orders and the id counter as they were.
C13_InsufficientFundsRejected ==
    [][last'.op = "create_order" => \A c \in FundsCreateCalls :
          (/\ IF c[3] = "buy"
              THEN balances[USDT].free < c[4] * C13_Price(c)
              ELSE balances[BTC].free < c[4]
           /\ create_order(c[1], c[2], c[3], c[4], c[5]))
          => /\ last'.op = "create_order"
             /\ last'.err = "InsufficientFunds"
             /\ balances' = balances
             /\ orders' = orders
             /\ order_counter' = order_counter]_vars

\* A buy has just been refused: the free BTC covers every sell of the input
\* set, the free USDT covers no buy.
C13_Witness ==
    /\ last.op = "create_order"
    /\ last.err = "InsufficientFunds"
    /\ balances[BTC].free >= 1
    /\ balances[USDT].free < InitPriceBTC * SlippageSell
    /\ orders # <<>>

\* The error kinds of the simulator: every one is a MockExchangeError.
MockExchangeErrors ==
    {"UnknownSymbol", "InvalidOrderType", "InvalidSide", "InsufficientFunds",
     "OrderNotFound", "CannotCancelClosedOrder"}

\* C14: a create_order call on a preconfigured symbol either returns an
\* order record or fails with a MockExchangeError; no other kind of failure
\* reaches the caller.
C14_OnlyMockExchangeError ==
    last.op = "create_order" => last.err \in {"ok"} \cup MockExchangeErrors

\* The symbols, order types and sides the simulator knows.
C15_Symbols == {BTC_USDT, ETH_USDT, BNB_USDT, ADA_USDT, SOL_USDT}
C15_Types == {"market", "limit"}
C15_Sides == {"buy", "sell"}

\* C15: create_order rejects an unknown symbol with UnknownSymbol, then an
\* unknown type with InvalidOrderType, then an unknown side with
\* InvalidSide, whatever the later arguments are, and a rejected call leaves
\* the balances, the stored orders and the id counter unchanged.
C15_ValidationOrder ==
    [][last'.op = "create_order" => \A c \in CreateCalls :
          create_order(c[1], c[2], c[3], c[4], c[5])
          => /\ c[1] \notin C15_Symbols => last'.err = "UnknownSymbol"
             /\ (c[1] \in C15_Symbols /\ c[2] \notin C15_Types)
                   => last'.err = "InvalidOrderType"
             /\ (c[1] \in C15_Symbols /\ c[2] \in C15_Types /\ c[3] \notin C15_Sides)
                   => last'.err = "InvalidSide"
             /\ (c[1] \in C15_Symbols /\ c[2] \in C15_Types /\ c[3] \in C15_Sides)
                   => last'.err \notin {"UnknownSymbol", "InvalidOrderType", "InvalidSide"}
             /\ last'.err \in {"UnknownSymbol", "InvalidOrderType", "InvalidSide"}
                   => /\ last'.op = "create_order"
                      /\ balances' = balances
                      /\ orders' = orders
                      /\ order_counter' = order_counter]_vars

\* A call with a known symbol, an unknown type and an unknown side has just
\* been rejected for its type, after an order was placed.
C15_Witness ==
    /\ last.op = "create_order"
    /\ last.err = "InvalidOrderType"
    /\ orders # <<>>

C17_MarketOrderRecorded ==
    [][/\ ReturnedNext("create_order") => \A c \in CreateCalls :
             (/\ c[2] = "market"
              /\ create_order(c[1], c[2], c[3], c[4], c[5]))
             => LET o == last'.result
                IN  /\ o.status = "closed"
                    /\ o.filled = c[4]
                    /\ o.remaining = 0
                    /\ o.price = current_prices[c[1]]
                                   * (IF c[3] = "buy" THEN SlippageBuy ELSE SlippageSell)
                    /\ o.id \in DOMAIN orders' /\ orders'[o.id] = o
       /\ ReturnedNext("fetch_ticker")
             => current_prices'[last'.result.symbol] * 2000 = last'.result.last
       /\ \A symbol \in DOMAIN current_prices :
             current_prices'[symbol] # current_prices[symbol]
             => ReturnedNext("fetch_ticker") /\ last'.result.symbol = symbol]_vars

\* A market sell has just been recorded at 0.999 times the price the last
\* fetch_ticker stored.
C17_Witness ==
    /\ Returned("create_order")
    /\ last.result.type = "market"
    /\ last.result.side = "sell"
    /\ last.result.status = "closed"
    /\ current_prices[BTC_USDT] = InitPriceBTC + TickStep
    /\ last.result.price = (InitPriceBTC + TickStep) * SlippageSell

\* C18: every order create_order returns has the initial status its type
\* gives it, open for a limit order and closed for a market order, with or
\* without a price argument.
C18_StatusByType ==
    Returned("create_order")
    => /\ last.result.type = "limit" => last.result.status = "open"
       /\ last.result.type = "market" => last.result.status = "closed"

\* C19: what fetch_open_orders returns is exactly the stored orders with
\* status open; it holds every limit order created and not canceled since,
\* and no closed or canceled order.  (Every stored order of this
\* specification is on BTC/USDT, the one symbol the call filters by.)
C19_OpenOrdersComplete ==
    Returned("fetch_open_orders")
    => /\ last.result = {id \in DOMAIN orders : orders[id].status = "open"}
       /\ \A id \in DOMAIN orders :
             (orders[id].type = "limit" /\ orders[id].status # "canceled")
             => id \in last.result
       /\ \A id \in last.result : orders[id].status \notin {"closed", "canceled"}

\* The calls that only read.
C20_Reads ==
    {"fetch_order", "fetch_open_orders", "fetch_balance", "fetch_order_book",
     "fetch_ohlcv", "test_connection"}

\* The candle series is the same after the step.  (The series is a function
\* of the draws made at construction, and is compared only if they differ.)
C20_SeriesUnchanged ==
    history_draws' = history_draws \/ price_history' = price_history

\* C20: fetch_order, fetch_open_orders, fetch_balance, fetch_order_book,
\* fetch_ohlcv and test_connection, whether they return or raise, leave the
\* balances, the stored orders, the id counter, every current price and the
\* candle series unchanged.
C20_PureReads ==
    [][last'.op \in C20_Reads
          => /\ balances' = balances
             /\ orders' = orders
             /\ order_counter' = order_counter
             /\ current_prices' = current_prices
             /\ C20_SeriesUnchanged]_vars

\* An order book of two levels has just been read, with an order stored and
\* the price moved by an earlier fetch_ticker.
C20_Witness ==
    /\ Returned("fetch_order_book")
    /\ Len(last.result.bids) = 2
    /\ orders # <<>>
    /\ current_prices # InitPrices

\* The assets of the ledger.
C21_Assets == {USDT, BTC, ETH, BNB}

\* C21: what fetch_balance returns has, under each asset of the ledger, the
\* record of that asset's free, used and total as the ledger holds them.
C21_BalanceByAsset ==
    Returned("fetch_balance")
    => \A a \in C21_Assets :
          /\ a \in DOMAIN last.result
          /\ last.result[a] = balances[a]

\* C22: in the series fetch_ohlcv returns, whole or a tail cut by a limit,
\* every candle after the first opens at the close of the candle before it.
\* (A candle is [time, open, high, low, close, volume].)
C22_OpenIsPreviousClose ==
    Returned("fetch_ohlcv")
    => \A i \in 2..Len(last.result) : last.result[i][2] = last.result[i - 1][5]

\* A tail of two candles has just been returned: the second opens where the
\* first closed, away from the first one's open.
C22_Witness ==
    /\ Returned("fetch_ohlcv")
    /\ Len(last.result) = 2
    /\ last.result[2][2] = last.result[1][5]
    /\ last.result[1][5] # last.result[1][2]
    /\ orders # <<>>

\* The last n candles of a series.
C30_Tail(series, n) == SubSeq(series, Len(series) - n + 1, Len(series))

\* C30: fetch_ohlcv with a limit >= 0 returns the last min(limit, 24)
\* candles of the symbol's series in their order, and all 24 without a limit.
C30_LastCandles ==
    [][last'.op = "fetch_ohlcv" => \A symbol \in CandleSymbols, limit \in CandleLimits :
          (fetch_ohlcv(symbol, limit) /\ last'.err = "ok")
          => last'.result =
                IF limit = None
                THEN price_history[symbol]
                ELSE C30_Tail(price_history[symbol], Min(limit[1], CandleCount))]_vars

\* C29: fetch_order_book returns limit levels on each side, 20 without a
\* limit, the bid prices strictly descending and all below the symbol's
\* current price, the ask prices strictly ascending and all above it.  (A
\* level is [price, size], the price in 1/10000 of the price unit.)
C29_OrderBookLevels ==
    [][last'.op = "fetch_order_book" => \A symbol \in BookSymbols, limit \in BookLimits :
          (fetch_order_book(symbol, limit) /\ last'.err = "ok")
          => LET bids == last'.result.bids
                 asks == last'.result.asks
                 n == IF limit = None THEN DefaultDepth ELSE limit[1]
             IN  /\ Len(bids) = n
                 /\ Len(asks) = n
                 /\ \A i \in 2..Len(bids) : bids[i][1] < bids[i - 1][1]
                 /\ \A i \in 2..Len(asks) : asks[i][1] > asks[i - 1][1]
                 /\ \A i \in 1..Len(bids) : bids[i][1] < current_prices[symbol] * 10000
                 /\ \A i \in 1..Len(asks) : asks[i][1] > current_prices[symbol] * 10000]_vars

\* C27: fetch_ticker on a known symbol stores a price within 0.05% of the
\* previous one under that symbol and changes nothing else: not the
\* balances, the orders, the id counter, another symbol's price or the
\* candle series; on an unknown symbol it fails with UnknownSymbol and
\* changes nothing.
C27_TickerFrame ==
    [][last'.op = "fetch_ticker"
          => /\ balances' = balances
             /\ orders' = orders
             /\ order_counter' = order_counter
             /\ C20_SeriesUnchanged
             /\ DOMAIN current_prices' = DOMAIN current_prices
             /\ last'.err = "ok"
                   => LET s == last'.result.symbol
                          old == current_prices[s]
                          new == current_prices'[s]
                      IN  /\ (new - old) * 2000 <= old
                          /\ (old - new) * 2000 <= old
                          /\ \A t \in DOMAIN current_prices \ {s} :
                                current_prices'[t] = current_prices[t]
             /\ last'.err # "ok" => current_prices' = current_prices
             /\ \A symbol \in CallSymbols :
                   fetch_ticker(symbol)
                   => (last'.err = "UnknownSymbol" <=> symbol \notin C15_Symbols)]_vars

\* fetch_ticker has just moved the price of BTC/USDT, with an order stored.
C27_Witness ==
    /\ Returned("fetch_ticker")
    /\ last.result.symbol = BTC_USDT
    /\ current_prices[BTC_USDT] # InitPriceBTC
    /\ last.result.last = current_prices[BTC_USDT] * 2000
    /\ orders # <<>>

\* C28: in the ticker fetch_ticker returns, bid = last - s and ask = last + s
\* with s 0.05% (1/2000) of the price reported as last, so bid < last < ask.
C28_SpreadOfLast ==
    Returned("fetch_ticker")
    => LET r == last.result
           s == r.last - r.bid
       IN  /\ r.ask - r.last = s
           /\ s * 2000 = r.last
           /\ r.bid < r.last
           /\ r.last < r.ask

\* C26: for a valid symbol, type and side, create_order succeeds exactly
\* when the free balance of the asset it reserves is at least the amount
\* needed (amount*price of the quote for a buy, amount of the base for a
\* sell), and fails with InsufficientFunds otherwise; when free equals the
\* amount needed the order is accepted and free is 0 afterwards.
C26_SucceedsIffCovered ==
    [][last'.op = "create_order" => \A c \in FundsCreateCalls :
          create_order(c[1], c[2], c[3], c[4], c[5])
          => LET asset == IF c[3] = "buy" THEN USDT ELSE BTC
                 needed == IF c[3] = "buy" THEN c[4] * C13_Price(c) ELSE c[4]
             IN  /\ last'.err = "ok" <=> balances[asset].free >= needed
                 /\ last'.err \in {"ok", "InsufficientFunds"}
                 /\ last'.err = "ok"
                       => balances'[asset].free = balances[asset].free - needed
                 /\ balances[asset].free = needed => balances'[asset].free = 0]_vars

\* A buy that needs the whole free USDT has just been accepted: nothing is
\* left free.
C26_Witness ==
    /\ Returned("create_order")
    /\ last.result.side = "buy"
    /\ last.result.amount * last.result.price = InitUSDT
    /\ balances[USDT].free = 0
    /\ balances[USDT].used = InitUSDT

\* The known quote assets, and the symbols no known quote ends.
C23_Quotes == {USDT, BUSD, USDC, BTC, ETH, BNB}
C23_NoQuote(symbol) ==
    ~HasSlash(symbol) /\ \A quote \in C23_Quotes : ~EndsWith(symbol, quote)

\* The symbol split before its last four characters.
C23_SplitLastFour(symbol) ==
    DropLast(symbol, Min(4, Len(symbol))) \o <<"/">> \o TakeLast(symbol, Min(4, Len(symbol)))

\* What _convert_symbol does with a symbol that has a slash or ends with a
\* known quote, and the symbol place_order answers with.
C23_SlashAndQuotes ==
    /\ Returned("_convert_symbol")
          => /\ HasSlash(last.arg) => last.result = last.arg
             /\ ConvertSymbol(last.result) = last.result
             /\ \A quote \in C23_Quotes :
                   (~HasSlash(last.arg) /\ EndsWith(last.arg, quote))
                   => last.result = DropLast(last.arg, Len(quote)) \o <<"/">> \o quote
             /\ \A pair \in C15_Symbols :
                   last.arg = SplitBase(pair) \o SplitQuote(pair) => last.result = pair
    /\ Returned("place_order")
          => LET order == orders[Str(last.result.orderId)]
             IN  /\ ~HasSlash(last.result.symbol)
                 /\ last.result.symbol = SplitBase(order.symbol) \o SplitQuote(order.symbol)

C24_Uppercase ==
    [buy |-> "BUY", sell |-> "SELL", market |-> "MARKET", limit |-> "LIMIT",
     open |-> "OPEN", closed |-> "CLOSED", canceled |-> "CANCELED"]

\* C24: the record place_order, get_order and cancel_order of MockClient
\* return has side BUY or SELL, type MARKET or LIMIT, status OPEN, CLOSED or
\* CANCELED and an integer orderId; a stored order has that id, and the
\* three words are the upper case of that order's side, type and status.
C24_NormalizedRecord ==
    \A op \in {"place_order", "get_order", "client.cancel_order"} :
        Returned(op)
        => LET r == last.result
           IN  /\ r.side \in {"BUY", "SELL"}
               /\ r.type \in {"MARKET", "LIMIT"}
               /\ r.status \in {"OPEN", "CLOSED", "CANCELED"}
               /\ r.orderId \in Nat
               /\ \E id \in DOMAIN orders :
                     /\ IntOf(id) = r.orderId
                     /\ orders[id].id = id
                     /\ r.side = C24_Uppercase[orders[id].side]
                     /\ r.type = C24_Uppercase[orders[id].type]
                     /\ r.status = C24_Uppercase[orders[id].status]

\* The client has just canceled the second order placed through it.
C24_Witness ==
    /\ Returned("client.cancel_order")
    /\ last.result.orderId = FirstOrderId + 1
    /\ last.result.status = "CANCELED"
    /\ last.result.type = "LIMIT"
    /\ orders[Str(FirstOrderId + 1)].status = "canceled"

\* C25: test_connection never raises; on the client it returns true exactly
\* when the balance fetch behind it does not raise; and on the simulator, of
\* which the client is the adapter, it returns true in every state.
C25_ConnectionTrue ==
    /\ last.op \in {"test_connection", "client.test_connection"}
          => last.err = "ok" /\ last.result = TRUE
    /\ last.op = "client.test_connection"
          => (last.result = TRUE <=> ~AccountBalanceRaises)

\* The times of a series are one hour apart, each after the one before it.
C31_Hourly(series) ==
    \A i \in 2..Len(series) :
        /\ series[i][1] = series[i - 1][1] + HourMs
        /\ series[i][1] > series[i - 1][1]

\* C31: no call changes the candle series: whatever create_order,
\* cancel_order and fetch_ticker calls came before, fetch_ohlcv without a
\* limit returns the 24 candles the construction generated for the symbol,
\* their times one hour apart and strictly increasing.
C31_SeriesFixed ==
    /\ [][history_draws' = history_draws]_vars
    /\ [](Returned("fetch_ohlcv") /\ Len(last.result) = CandleCount
            => /\ \E draws \in HistoryDraws, symbol \in DOMAIN InitPrices :
                     /\ draws = history_draws
                     /\ last.result[1][2] = InitPrices[symbol] * 95
                     /\ last.result = GeneratePriceHistory(draws)[symbol]
               /\ C31_Hourly(last.result))

\* All 24 candles of SOL/USDT have just been returned, after an order was
\* canceled, another placed and the price of BTC/USDT moved.
C31_Witness ==
    /\ Returned("fetch_ohlcv")
    /\ Len(last.result) = CandleCount
    /\ last.result[1][2] = InitPriceSOL * 95
    /\ last.result[CandleCount][1] = last.result[1][1] + (CandleCount - 1) * HourMs
    /\ \E id \in DOMAIN orders : orders[id].status = "canceled"
    /\ \E id \in DOMAIN orders : orders[id].status # "canceled"
    /\ current_prices[BTC_USDT] # InitPrices[BTC_USDT]

\* A candle [time, open, high, low, close, volume] is consistent.
C32_Consistent(candle) ==
    /\ candle[3] >= Max(candle[2], candle[5])
    /\ candle[4] <= Min(candle[2], candle[5])
    /\ candle[4] <= candle[3]

\* The draws of one candle, over the whole range of each factor.
C32_Draws ==
    [close : 98..102, high : 100..102, low : 98..100, volume : {100}]

\* C32: every generated candle has high >= max(open, close) and
\* low <= min(open, close), hence low <= high: the candles of every symbol's
\* series, and the candle made from any open price and any draws.
C32_CandlesConsistent ==
    /\ \A series \in {price_history[symbol] : symbol \in DOMAIN InitPrices} :
          \A i \in 1..Len(series) : C32_Consistent(series[i])
    /\ \A symbol \in DOMAIN InitPrices, d \in C32_Draws :
          C32_Consistent(Candle(0, InitPrices[symbol] * 95,
                                Scaled(InitPrices[symbol] * 95, d.close), d))

\* A whole series has just been read in which one candle rises, with its
\* high above its close, and another falls, with its low below its close.
C32_Witness ==
    /\ Returned("fetch_ohlcv")
    /\ Len(last.result) = CandleCount
    /\ \E i \in 1..CandleCount :
          /\ last.result[i][5] > last.result[i][2]
          /\ last.result[i][3] > last.result[i][5]
          /\ last.result[i][4] < last.result[i][2]
    /\ \E i \in 1..CandleCount :
          /\ last.result[i][5] < last.result[i][2]
          /\ last.result[i][4] < last.result[i][5]
          /\ last.result[i][3] > last.result[i][2]

\* C33: every stored order has 0 <= filled <= amount; an open or closed
\* order has filled + remaining = amount; a canceled order has remaining 0,
\* and cancel_order leaves filled as it was.
C33_FilledWithinAmount ==
    /\ [](\A id \in DOMAIN orders :
            LET o == orders[id]
            IN  /\ 0 <= o.filled
                /\ o.filled <= o.amount
                /\ o.status \in {"open", "closed"} => o.filled + o.remaining = o.amount
                /\ o.status = "canceled" => o.remaining = 0)
    /\ [][\A id \in DOMAIN orders :
              orders'[id].status = "canceled" /\ orders[id].status # "canceled"
              => orders'[id].filled = orders[id].filled]_vars

\* C34: every stored order reports cost = filled * average, so an order
\* with filled 0 (an open or canceled limit order) reports cost 0.
C34_CostIsFilledTimesAverage ==
    \A id \in DOMAIN orders :
        /\ orders[id].cost = orders[id].filled * orders[id].average
        /\ orders[id].filled = 0 => orders[id].cost = 0

\* C35: the ids are the consecutive integers from 1000: the counter is 1000
\* plus the number of stored orders and the stored ids are those below it;
\* a create_order that fails leaves the counter and the registry alone; and
\* no step removes an order, so that every stored order, canceled or not,
\* can be fetched.
C35_ConsecutiveIds ==
    /\ [](/\ order_counter = FirstOrderId + Cardinality(DOMAIN orders)
          /\ DOMAIN orders = {Str(n) : n \in FirstOrderId..(order_counter - 1)}
          /\ \A id \in DOMAIN orders : orders[id].id = id)
    /\ [][/\ (last'.op = "create_order" /\ last'.err # "ok")
                => order_counter' = order_counter /\ orders' = orders
           /\ DOMAIN orders \subseteq DOMAIN orders'
           /\ \A id \in DOMAIN orders, symbol \in CallSymbols :
                 fetch_order(id, symbol)
                 => last'.err = "ok" /\ last'.result.id = id]_vars

\* A create_order has just failed on its symbol, after an order was stored
\* and canceled: the counter stands at 1001 and the order is still stored.
C35_Witness ==
    /\ last.op = "create_order"
    /\ last.err = "UnknownSymbol"
    /\ order_counter = FirstOrderId + 1
    /\ DOMAIN orders = {Str(FirstOrderId)}
    /\ orders[Str(FirstOrderId)].status = "canceled"

\* C36: the integer orderId in the response of MockClient.place_order
\* reaches the order it was given for: the response is the stored order of
\* that id, formatted; get_order with that id returns a record with the
\* same orderId, symbol, side and type and changes nothing; and cancel_order
\* with that id, when it succeeds, cancels that order and leaves every other
\* order as it was.
C36_RoundTrip ==
    /\ [](Returned("place_order")
            => /\ Str(last.result.orderId) \in DOMAIN orders
               /\ last.result = FormatToBinanceResponse(orders[Str(last.result.orderId)]))
    /\ [][\A id \in DOMAIN orders :
              LET response == FormatToBinanceResponse(orders[id])
              IN  /\ get_order(BTCUSDT, response.orderId)
                        => /\ last'.err = "ok"
                           /\ last'.result.orderId = response.orderId
                           /\ last'.result.symbol = response.symbol
                           /\ last'.result.side = response.side
                           /\ last'.result.type = response.type
                           /\ orders' = orders
                  /\ (client_cancel_order(BTCUSDT, response.orderId) /\ last'.err = "ok")
                        => /\ last'.result.orderId = response.orderId
                           /\ orders'[id] = Canceled(orders[id])
                           /\ DOMAIN orders' = DOMAIN orders
                           /\ \A other \in DOMAIN orders \ {id} :
                                 orders'[other] = orders[other]]_vars

\* The client has just canceled the second order placed through it, by the
\* id of its response; the first order is still open.
C36_Witness ==
    /\ Returned("client.cancel_order")
    /\ last.result.orderId = FirstOrderId + 1
    /\ orders[Str(FirstOrderId + 1)].status = "canceled"
    /\ orders[Str(FirstOrderId)].status = "open"
    /\ balances[USDT].used + balances[BTC].used > 0

\* C37: the record OrderManager returns for an order placed over MockClient
\* has cumulativeQuoteQty equal to the cost the simulator reports for the
\* order, and quantity, executedQty and avgPrice equal to the order's amount,
\* filled and average.
C37_NormalizedNumbers ==
    \A op \in {"place_market_order", "place_limit_order"} :
        Returned(op)
        => LET record == last.result
               order == orders[Str(record.orderId)]
           IN  /\ record.quantity = order.amount
               /\ record.executedQty = order.filled
               /\ record.avgPrice = order.average
               /\ record.cumulativeQuoteQty = order.cost

\* The quantity is not positive or outside [0.001, 1000].
C38_QuantityInvalid(quantity) ==
    \/ quantity = None
    \/ ~FLess(0, quantity[1])
    \/ ~(FLessEq(MinOrderQuantity, quantity[1]) /\ FLessEq(quantity[1], MaxOrderQuantity))

\* The price is not positive.
C38_PriceInvalid(price) == price # None /\ ~FLess(0, price[1])

\* ValidationError was raised, client.place_order was not called and the
\* backend is as it was.
C38_Rejected ==
    /\ last'.err = "ValidationError"
    /\ ~last'.called
    /\ UNCHANGED <<balances, orders, order_counter, current_prices, history_draws>>

\* C38: place_market_order and place_limit_order forward no order that
\* validate_order_params would not accept: when the symbol or the side is
\* invalid, the quantity is not positive or outside [0.001, 1000], or the
\* price of a limit order is missing or not positive, ValidationError is
\* raised, client.place_order is not called and the backend state is
\* unchanged.
C38_ValidationFirst ==
    [][/\ last'.op = "place_market_order" => \A c \in MarketCalls :
             (/\ place_market_order(c[1], c[2], c[3])
              /\ \/ ValidateSymbol(c[1]) # "ok"
                 \/ ValidateSide(c[2]) # "ok"
                 \/ C38_QuantityInvalid(c[3]))
             => C38_Rejected
       /\ last'.op = "place_limit_order" => \A c \in LimitCalls :
             (/\ place_limit_order(c[1], c[2], c[3], c[4])
              /\ \/ ValidateSymbol(c[1]) # "ok"
                 \/ ValidateSide(c[2]) # "ok"
                 \/ C38_QuantityInvalid(c[3])
                 \/ c[4] = None
                 \/ C38_PriceInvalid(c[4]))
             => C38_Rejected]_vars

\* C39: the outcome of cancel_order and of fetch_order depends on the order
\* id alone: a step that is the call with one symbol is also the call with
\* any other, with the same result, error and resulting state; and a cancel
\* moves balance from used to free in the asset of the order's stored
\* symbol (its quote for a buy, its base for a sell) and in no other.
C39_SymbolIgnored ==
    [][last'.op \in {"cancel_order", "fetch_order"} =>
          /\ \A id \in OrderIds, s1 \in CancelSymbols :
                /\ cancel_order(id, s1) => \A s2 \in CancelSymbols : cancel_order(id, s2)
                /\ fetch_order(id, s1) => \A s2 \in CancelSymbols : fetch_order(id, s2)
          /\ \A id \in DOMAIN orders, symbol \in CancelSymbols :
                (cancel_order(id, symbol) /\ last'.err = "ok")
                => LET asset == IF orders[id].side = "buy"
                                THEN SplitQuote(orders[id].symbol)
                                ELSE SplitBase(orders[id].symbol)
                   IN  /\ \A other \in DOMAIN balances \ {asset} :
                             balances'[other] = balances[other]
                       /\ balances'[asset].free - balances[asset].free
                              = balances[asset].used - balances'[asset].used
                       /\ balances'[asset].free >= balances[asset].free]_vars

\* A sell order of BTC/USDT has just been canceled and its BTC is free
\* again, while a buy order holds USDT.
C39_Witness ==
    /\ Returned("cancel_order")
    /\ last.result.side = "sell"
    /\ last.result.symbol = BTC_USDT
    /\ balances[BTC].used = 0
    /\ balances[BTC].free = InitBTC
    /\ balances[USDT].used > 0

====
